---------------------------- MODULE Spec2Model ----------------------------
(***************************************************************************)
(* A model of the AiAssistant module of VibeCAD (src/Mod/AiAssistant):     *)
(* the chat window singleton, the LLM connector with its conversation      *)
(* history and tool-calling loop, the background send threads with the     *)
(* queued hand-off to the GUI thread, and the JSON import entry point.     *)
(*                                                                         *)
(* Text is modelled as a sequence of one-character strings, so that the    *)
(* regular expression, the shlex tokenizer and float() act on characters   *)
(* as they do in the code.  A float is modelled by the integer number of   *)
(* thousandths it denotes (10.0 is 10000, 2.5 is 2500).                    *)
(***************************************************************************)
EXTENDS Integers, Sequences, FiniteSets, TLC

None == "None"

(***************************************************************************)
(* Bounds of the model.                                                    *)
(***************************************************************************)
MaxSends == 2        \* Send clicks (each starts one background thread)
MaxTimers == 1       \* pending workbench activation timers
MaxToolCalls == 2    \* tool calls made one after the other on a document

(***************************************************************************)
(* Characters.                                                             *)
(***************************************************************************)
Digits == {"0", "1", "2", "3", "4", "5", "6", "7", "8", "9"}

Letters ==
    {"a", "b", "c", "d", "e", "f", "g", "h", "i", "j", "k", "l", "m",
     "n", "o", "p", "q", "r", "s", "t", "u", "v", "w", "x", "y", "z",
     "A", "B", "C", "D", "E", "F", "G", "H", "I", "J", "K", "L", "M",
     "N", "O", "P", "Q", "R", "S", "T", "U", "V", "W", "X", "Y", "Z"}

\* \w of the pattern
WordChars == Letters \cup Digits \cup {"_"}

\* str.strip() and shlex.whitespace
Whitespace == {" ", "\t", "\r", "\n"}

\* shlex.quotes, and the argument of strip('\'"')
Quotes == {"'", "\""}

DigitVal ==
    [d \in Digits |->
        CASE d = "0" -> 0 [] d = "1" -> 1 [] d = "2" -> 2 [] d = "3" -> 3
          [] d = "4" -> 4 [] d = "5" -> 5 [] d = "6" -> 6 [] d = "7" -> 7
          [] d = "8" -> 8 [] d = "9" -> 9]

(***************************************************************************)
(* str.strip(chars): remove leading and trailing characters of a set.      *)
(***************************************************************************)
RECURSIVE LStrip(_, _)
LStrip(s, cs) ==
    IF s # <<>> /\ Head(s) \in cs THEN LStrip(Tail(s), cs) ELSE s

RECURSIVE RStrip(_, _)
RStrip(s, cs) ==
    IF s # <<>> /\ s[Len(s)] \in cs
    THEN RStrip(SubSeq(s, 1, Len(s) - 1), cs)
    ELSE s

Strip(s, cs) == RStrip(LStrip(s, cs), cs)

(***************************************************************************)
(* str.split(','): the pieces between commas (always at least one piece).  *)
(***************************************************************************)
RECURSIVE SplitComma(_, _)
SplitComma(s, piece) ==
    IF s = <<>> THEN <<piece>>
    ELSE IF Head(s) = "," THEN <<piece>> \o SplitComma(Tail(s), <<>>)
    ELSE SplitComma(Tail(s), Append(piece, Head(s)))

(***************************************************************************)
(* re.findall of the pattern of _extract_tool_calls: one or more word      *)
(* characters, an opening parenthesis, any characters other than a         *)
(* closing parenthesis, a closing parenthesis.  The non-overlapping        *)
(* matches, scanned from the left; each match is <<word, params_str>>.     *)
(***************************************************************************)
RECURSIVE WordEnd(_, _)
\* the index after the longest run of word characters starting at i
WordEnd(text, i) ==
    IF i <= Len(text) /\ text[i] \in WordChars THEN WordEnd(text, i + 1) ELSE i

RECURSIVE FirstClose(_, _)
\* the index of the first ")" at or after i, 0 when there is none
FirstClose(text, i) ==
    IF i > Len(text) THEN 0
    ELSE IF text[i] = ")" THEN i
    ELSE FirstClose(text, i + 1)

\* the match of the pattern that starts at i: [ok, word, params, next]
MatchAt(text, i) ==
    LET j == WordEnd(text, i)
        k == FirstClose(text, j + 1)
    IN  IF j > i /\ j <= Len(text) /\ text[j] = "(" /\ k # 0
        THEN [ok |-> TRUE, word |-> SubSeq(text, i, j - 1),
              params |-> SubSeq(text, j + 1, k - 1), next |-> k + 1]
        ELSE [ok |-> FALSE, word |-> <<>>, params |-> <<>>, next |-> i + 1]

RECURSIVE FindAll(_, _)
FindAll(text, i) ==
    IF i > Len(text) THEN <<>>
    ELSE LET m == MatchAt(text, i)
         IN  IF m.ok
             THEN <<(<<m.word, m.params>>)>> \o FindAll(text, m.next)
             ELSE FindAll(text, m.next)

(***************************************************************************)
(* shlex.split(s, posix=False, comments=False): the tokenizer of           *)
(* shlex.read_token with whitespace_split set and no commenters.  st is    *)
(* the tokenizer state: " " between tokens, "a" inside a word, or the      *)
(* quote character of an open quotation.  The result is [ok, tokens];      *)
(* ok is FALSE for ValueError("No closing quotation").                     *)
(***************************************************************************)
RECURSIVE ShlexRun(_, _, _, _)
ShlexRun(s, st, token, out) ==
    IF s = <<>>
    THEN IF st \in Quotes THEN [ok |-> FALSE, tokens |-> <<>>]
         ELSE IF st = "a" THEN [ok |-> TRUE, tokens |-> Append(out, token)]
         ELSE [ok |-> TRUE, tokens |-> out]
    ELSE LET c == Head(s)
             r == Tail(s)
         IN  IF st = " "
             THEN IF c \in Whitespace THEN ShlexRun(r, " ", <<>>, out)
                  ELSE IF c \in Quotes THEN ShlexRun(r, c, <<c>>, out)
                  ELSE ShlexRun(r, "a", <<c>>, out)
             ELSE IF st \in Quotes
             THEN IF c = st
                  THEN ShlexRun(r, " ", <<>>, Append(out, Append(token, c)))
                  ELSE ShlexRun(r, st, Append(token, c), out)
             ELSE \* st = "a"
                  IF c \in Whitespace
                  THEN ShlexRun(r, " ", <<>>, Append(out, token))
                  ELSE ShlexRun(r, "a", Append(token, c), out)

ShlexSplit(s) == ShlexRun(s, " ", <<>>, <<>>)

(***************************************************************************)
(* float(param) and int(param) on a decimal literal.  The string is        *)
(* stripped of whitespace; an optional sign, digits, and for float an      *)
(* optional point and fraction digits (at least one digit in all).  The    *)
(* value of a float is in thousandths; a literal that is no number is      *)
(* ValueError (ok = FALSE).  Exponents, underscores, inf and nan do not    *)
(* occur in the inputs of the model.                                       *)
(***************************************************************************)
RECURSIVE DigitsValue(_, _)
DigitsValue(s, acc) ==
    IF s = <<>> THEN acc ELSE DigitsValue(Tail(s), 10 * acc + DigitVal[Head(s)])

AllDigits(s) == \A i \in 1..Len(s) : s[i] \in Digits

\* the first three fraction digits, as thousandths
FracMilli(f) ==
    LET d(i) == IF i <= Len(f) THEN DigitVal[f[i]] ELSE 0
    IN  100 * d(1) + 10 * d(2) + d(3)

FirstDot(s) ==
    IF \E i \in 1..Len(s) : s[i] = "."
    THEN CHOOSE i \in 1..Len(s) : s[i] = "." /\ \A j \in 1..(i - 1) : s[j] # "."
    ELSE 0

PyFloat(param) ==
    LET t == Strip(param, Whitespace)
        neg == t # <<>> /\ Head(t) = "-"
        u == IF t # <<>> /\ Head(t) \in {"-", "+"} THEN Tail(t) ELSE t
        p == FirstDot(u)
        ip == IF p = 0 THEN u ELSE SubSeq(u, 1, p - 1)
        fp == IF p = 0 THEN <<>> ELSE SubSeq(u, p + 1, Len(u))
        good == AllDigits(ip) /\ AllDigits(fp) /\ Len(ip) + Len(fp) > 0
        mag == 1000 * DigitsValue(ip, 0) + FracMilli(fp)
    IN  IF good THEN [ok |-> TRUE, val |-> IF neg THEN 0 - mag ELSE mag]
        ELSE [ok |-> FALSE, val |-> 0]

PyInt(param) ==
    LET t == Strip(param, Whitespace)
        neg == t # <<>> /\ Head(t) = "-"
        u == IF t # <<>> /\ Head(t) \in {"-", "+"} THEN Tail(t) ELSE t
        good == AllDigits(u) /\ Len(u) > 0
        mag == DigitsValue(u, 0)
    IN  IF good THEN [ok |-> TRUE, val |-> IF neg THEN 0 - mag ELSE mag]
        ELSE [ok |-> FALSE, val |-> 0]

(***************************************************************************)
(* The names of the default tools and of the objects they add, as text.    *)
(***************************************************************************)
N_create_document ==
    <<"c", "r", "e", "a", "t", "e", "_", "d", "o", "c", "u", "m", "e", "n",
      "t">>

N_create_box ==
    <<"c", "r", "e", "a", "t", "e", "_", "b", "o", "x">>

N_create_cylinder ==
    <<"c", "r", "e", "a", "t", "e", "_", "c", "y", "l", "i", "n", "d", "e",
      "r">>

N_create_sphere ==
    <<"c", "r", "e", "a", "t", "e", "_", "s", "p", "h", "e", "r", "e">>

N_move_object ==
    <<"m", "o", "v", "e", "_", "o", "b", "j", "e", "c", "t">>

N_rotate_object ==
    <<"r", "o", "t", "a", "t", "e", "_", "o", "b", "j", "e", "c", "t">>

N_boolean_union ==
    <<"b", "o", "o", "l", "e", "a", "n", "_", "u", "n", "i", "o", "n">>

N_boolean_cut ==
    <<"b", "o", "o", "l", "e", "a", "n", "_", "c", "u", "t">>

N_list_objects ==
    <<"l", "i", "s", "t", "_", "o", "b", "j", "e", "c", "t", "s">>

N_get_object_info ==
    <<"g", "e", "t", "_", "o", "b", "j", "e", "c", "t", "_", "i", "n", "f",
      "o">>

N_Box == <<"B", "o", "x">>

N_Cylinder == <<"C", "y", "l", "i", "n", "d", "e", "r">>

N_Sphere == <<"S", "p", "h", "e", "r", "e">>

(***************************************************************************)
(* Python values of the model.  None where a string is expected is the     *)
(* one-element sequence PyNone, which is no text (its element is not a     *)
(* character).  A converted tool parameter is a record: a float with its   *)
(* value in thousandths, an int, or a string with its text.                *)
(***************************************************************************)
PyNone == <<None>>

FloatV(v) == [t |-> "float", v |-> v]
IntV(v) == [t |-> "int", v |-> v]
StrV(s) == [t |-> "str", s |-> s]

(***************************************************************************)
(* ToolRegistry.  tools maps a tool name to its descriptor; the bound      *)
(* function is named by a string.                                          *)
(***************************************************************************)
P(n, ty) == [name |-> n, type |-> ty]

\* a register_tool that leaves the name out of the descriptor
register_tool_unnamed(tools, name, function, parameters) ==
    [n \in (DOMAIN tools) \cup {name} |->
        IF n = name
        THEN [name |-> <<>>, function |-> function, parameters |-> parameters]
        ELSE tools[n]]

register_tool(tools, name, function, parameters) ==
    [n \in (DOMAIN tools) \cup {name} |->
        IF n = name
        THEN [name |-> name, function |-> function, parameters |-> parameters]
        ELSE tools[n]]

EmptyTools == [n \in {} |-> None]

register_default_tools(tools) ==
    LET t1 == register_tool(tools, N_create_document, "_create_document",
                  <<P("name", "string")>>)
        t2 == register_tool(t1, N_create_box, "_create_box",
                  <<P("length", "float"), P("width", "float"),
                    P("height", "float")>>)
        t3 == register_tool(t2, N_create_cylinder, "_create_cylinder",
                  <<P("radius", "float"), P("height", "float")>>)
        t4 == register_tool(t3, N_create_sphere, "_create_sphere",
                  <<P("radius", "float")>>)
        t5 == register_tool(t4, N_move_object, "_move_object",
                  <<P("object_name", "string"), P("x", "float"),
                    P("y", "float"), P("z", "float")>>)
        t6 == register_tool(t5, N_rotate_object, "_rotate_object",
                  <<P("object_name", "string"), P("x_angle", "float"),
                    P("y_angle", "float"), P("z_angle", "float")>>)
        t7 == register_tool(t6, N_boolean_union, "_boolean_union",
                  <<P("object1_name", "string"), P("object2_name", "string"),
                    P("result_name", "string")>>)
        t8 == register_tool(t7, N_boolean_cut, "_boolean_cut",
                  <<P("base_name", "string"), P("tool_name", "string"),
                    P("result_name", "string")>>)
        t9 == register_tool(t8, N_list_objects, "_list_objects", <<>>)
    IN  register_tool(t9, N_get_object_info, "_get_object_info",
            <<P("object_name", "string")>>)

\* ToolRegistry.__init__
NewToolRegistry == register_default_tools(EmptyTools)

\* dict.get: the descriptor, or None; Found tells which
HasTool(tools, name) == name \in DOMAIN tools

get_tool(tools, name) == IF HasTool(tools, name) THEN tools[name] ELSE None

(***************************************************************************)
(* The CAD document.  FreeCAD.ActiveDocument is NoDocument (falsy) or a    *)
(* document with its objects in creation order.  addObject gives the       *)
(* object a name that is unique in the document: the requested name, or    *)
(* the requested name followed by 001, 002, ...                            *)
(***************************************************************************)
NoDocument == [exists |-> FALSE, Name |-> <<>>, Objects |-> <<>>]

newDocument(name) == [exists |-> TRUE, Name |-> name, Objects |-> <<>>]

ObjectNames(doc) == {doc.Objects[i].Name : i \in 1..Len(doc.Objects)}

DigitChar(k) == CHOOSE d \in Digits : DigitVal[d] = k

UniqueName(doc, base) ==
    IF base \notin ObjectNames(doc) THEN base
    ELSE LET cand(k) == base \o <<"0", "0", DigitChar(k)>>
             k == CHOOSE n \in 1..9 :
                      /\ cand(n) \notin ObjectNames(doc)
                      /\ \A m \in 1..(n - 1) : cand(m) \in ObjectNames(doc)
         IN  cand(k)

NewObject(doc, typeId, name, dims, links) ==
    [Name |-> UniqueName(doc, name), TypeId |-> typeId, Dims |-> dims,
     Base |-> <<0, 0, 0>>, Rotation |-> <<>>, Links |-> links]

addObject(doc, obj) == [doc EXCEPT !.Objects = Append(@, obj)]

HasObject(doc, name) == name \in ObjectNames(doc)

ObjectIndex(doc, name) ==
    CHOOSE i \in 1..Len(doc.Objects) : doc.Objects[i].Name = name

(***************************************************************************)
(* The tool implementations.  Each takes the active document and the       *)
(* converted parameters and gives [result, doc]: the returned message      *)
(* (a tuple that starts with the message's fixed text) and the active      *)
(* document afterwards.                                                    *)
(***************************************************************************)
NoActiveDocument == <<"No active document. Please create a document first.">>

Ret(result, doc) == [result |-> result, doc |-> doc]

create_document(doc, a) ==
    Ret(<<"Created new document", a[1].s>>, newDocument(a[1].s))

create_box(doc, a) ==
    IF ~doc.exists THEN Ret(NoActiveDocument, doc)
    ELSE Ret(<<"Created box with dimensions", a[1].v, a[2].v, a[3].v>>,
             addObject(doc, NewObject(doc, "Part::Box", N_Box,
                                      <<a[1].v, a[2].v, a[3].v>>, <<>>)))

create_cylinder(doc, a) ==
    IF ~doc.exists THEN Ret(NoActiveDocument, doc)
    ELSE Ret(<<"Created cylinder with radius and height", a[1].v, a[2].v>>,
             addObject(doc, NewObject(doc, "Part::Cylinder", N_Cylinder,
                                      <<a[1].v, a[2].v>>, <<>>)))

create_sphere(doc, a) ==
    IF ~doc.exists THEN Ret(NoActiveDocument, doc)
    ELSE Ret(<<"Created sphere with radius", a[1].v>>,
             addObject(doc, NewObject(doc, "Part::Sphere", N_Sphere,
                                      <<a[1].v>>, <<>>)))

move_object(doc, a) ==
    IF ~doc.exists THEN Ret(NoActiveDocument, doc)
    ELSE IF ~HasObject(doc, a[1].s) THEN Ret(<<"Object not found", a[1].s>>, doc)
    ELSE LET i == ObjectIndex(doc, a[1].s)
             b == doc.Objects[i].Base
         IN  Ret(<<"Moved object by vector", a[1].s, a[2].v, a[3].v, a[4].v>>,
                 [doc EXCEPT !.Objects[i].Base =
                     <<b[1] + a[2].v, b[2] + a[3].v, b[3] + a[4].v>>])

\* the new rotation is the given one multiplied with the old: the model
\* keeps the factors, the latest first
rotate_object(doc, a) ==
    IF ~doc.exists THEN Ret(NoActiveDocument, doc)
    ELSE IF ~HasObject(doc, a[1].s) THEN Ret(<<"Object not found", a[1].s>>, doc)
    ELSE LET i == ObjectIndex(doc, a[1].s)
         IN  Ret(<<"Rotated object by angles", a[1].s, a[2].v, a[3].v, a[4].v>>,
                 [doc EXCEPT !.Objects[i].Rotation =
                     <<(<<a[2].v, a[3].v, a[4].v>>)>> \o @])

\* a union that does not look for its second operand
boolean_union_unchecked(doc, a) ==
    IF ~doc.exists THEN Ret(NoActiveDocument, doc)
    ELSE IF ~HasObject(doc, a[1].s) THEN Ret(<<"Object not found", a[1].s>>, doc)
    ELSE Ret(<<"Created boolean union", a[3].s, a[1].s, a[2].s>>,
             addObject(doc, NewObject(doc, "Part::Fuse", a[3].s, <<>>,
                                      <<a[1].s, a[2].s>>)))

boolean_union(doc, a) ==
    IF ~doc.exists THEN Ret(NoActiveDocument, doc)
    ELSE IF ~HasObject(doc, a[1].s) THEN Ret(<<"Object not found", a[1].s>>, doc)
    ELSE IF ~HasObject(doc, a[2].s) THEN Ret(<<"Object not found", a[2].s>>, doc)
    ELSE Ret(<<"Created boolean union", a[3].s, a[1].s, a[2].s>>,
             addObject(doc, NewObject(doc, "Part::Fuse", a[3].s, <<>>,
                                      <<a[1].s, a[2].s>>)))

boolean_cut(doc, a) ==
    IF ~doc.exists THEN Ret(NoActiveDocument, doc)
    ELSE IF ~HasObject(doc, a[1].s) THEN Ret(<<"Object not found", a[1].s>>, doc)
    ELSE IF ~HasObject(doc, a[2].s) THEN Ret(<<"Object not found", a[2].s>>, doc)
    ELSE Ret(<<"Created boolean cut", a[3].s, a[2].s, a[1].s>>,
             addObject(doc, NewObject(doc, "Part::Cut", a[3].s, <<>>,
                                      <<a[1].s, a[2].s>>)))

list_objects(doc, a) ==
    IF ~doc.exists THEN Ret(NoActiveDocument, doc)
    ELSE IF doc.Objects = <<>>
    THEN Ret(<<"No objects in the active document.">>, doc)
    ELSE Ret(<<"Objects in the active document:",
               [i \in 1..Len(doc.Objects) |->
                   <<doc.Objects[i].Name, doc.Objects[i].TypeId>>]>>, doc)

get_object_info(doc, a) ==
    IF ~doc.exists THEN Ret(NoActiveDocument, doc)
    ELSE IF ~HasObject(doc, a[1].s) THEN Ret(<<"Object not found", a[1].s>>, doc)
    ELSE Ret(<<"Object:", doc.Objects[ObjectIndex(doc, a[1].s)]>>, doc)

\* obj.PropertiesList of the objects of the model
PropertiesList == <<"Dims", "Base", "Rotation", "Links">>

\* the number of lines of the string a tool function returned: the
\* listing has a heading and a line per object, the object information has
\* the name, the type, the heading Properties: and a line per property
LinesOfReturn(function, text) ==
    IF function = "_list_objects" /\ Len(text) = 2 THEN 1 + Len(text[2])
    ELSE IF function = "_get_object_info" /\ text[1] = "Object:"
    THEN 3 + Len(PropertiesList)
    ELSE 1

\* the number of positional parameters of each tool function
Arity(function) ==
    CASE function = "_create_document" -> 1
      [] function = "_create_box" -> 3
      [] function = "_create_cylinder" -> 2
      [] function = "_create_sphere" -> 1
      [] function = "_move_object" -> 4
      [] function = "_rotate_object" -> 4
      [] function = "_boolean_union" -> 3
      [] function = "_boolean_cut" -> 3
      [] function = "_list_objects" -> 0
      [] function = "_get_object_info" -> 1

\* tool["function"](*converted_params) with the right number of parameters
ApplyTool(function, doc, a) ==
    CASE function = "_create_document" -> create_document(doc, a)
      [] function = "_create_box" -> create_box(doc, a)
      [] function = "_create_cylinder" -> create_cylinder(doc, a)
      [] function = "_create_sphere" -> create_sphere(doc, a)
      [] function = "_move_object" -> move_object(doc, a)
      [] function = "_rotate_object" -> rotate_object(doc, a)
      [] function = "_boolean_union" -> boolean_union(doc, a)
      [] function = "_boolean_cut" -> boolean_cut(doc, a)
      [] function = "_list_objects" -> list_objects(doc, a)
      [] function = "_get_object_info" -> get_object_info(doc, a)

(***************************************************************************)
(* LLMConnector._extract_tool_calls.  [raised, calls]: re.findall raises   *)
(* TypeError for a text that is None.                                      *)
(***************************************************************************)
\* the parameters of one match, from the text between its parentheses
ParseParams(params_str) ==
    IF Strip(params_str, Whitespace) = <<>> THEN <<>>
    ELSE LET r == ShlexSplit(params_str)
             pieces == IF r.ok THEN r.tokens ELSE SplitComma(params_str, <<>>)
         IN  [i \in 1..Len(pieces) |->
                 Strip(Strip(pieces[i], Whitespace), Quotes)]

\* a loop over the matches that stops after the first one
CallsOfFirst(tools, matches) ==
    IF matches = <<>> \/ ~HasTool(tools, matches[1][1]) THEN <<>>
    ELSE <<[name |-> matches[1][1], parameters |-> ParseParams(matches[1][2])]>>

RECURSIVE CallsOf(_, _)
CallsOf(tools, matches) ==
    IF matches = <<>> THEN <<>>
    ELSE LET m == Head(matches)
         IN  IF HasTool(tools, m[1])
             THEN <<[name |-> m[1], parameters |-> ParseParams(m[2])]>>
                      \o CallsOf(tools, Tail(matches))
             ELSE CallsOf(tools, Tail(matches))

extract_tool_calls(tools, text) ==
    IF text = PyNone THEN [raised |-> TRUE, calls |-> <<>>]
    ELSE [raised |-> FALSE, calls |-> CallsOf(tools, FindAll(text, 1))]

(***************************************************************************)
(* LLMConnector._execute_tool_call.  [result, doc, invoked]: the returned  *)
(* string, the active document afterwards, and the invocations of the      *)
(* tool function that were made (none or one), each with its parameters.   *)
(***************************************************************************)
RECURSIVE ConvertParamsKeepExtras(_, _, _)
\* a loop that passes the parameters beyond the schema on as strings
ConvertParamsKeepExtras(params, expected, i) ==
    IF i > Len(params) THEN [ok |-> TRUE, vals |-> <<>>]
    ELSE LET ty == IF i <= Len(expected) THEN expected[i].type ELSE "string"
             one == IF ty = "float"
                    THEN LET f == PyFloat(params[i])
                         IN  [ok |-> f.ok, val |-> FloatV(f.val)]
                    ELSE [ok |-> TRUE, val |-> StrV(params[i])]
             rest == ConvertParamsKeepExtras(params, expected, i + 1)
         IN  IF one.ok /\ rest.ok
             THEN [ok |-> TRUE, vals |-> <<one.val>> \o rest.vals]
             ELSE [ok |-> FALSE, vals |-> <<>>]

RECURSIVE ConvertParams(_, _, _)
\* the loop over enumerate(params): [ok, vals]; ok is FALSE for ValueError
ConvertParams(params, expected, i) ==
    IF i > Len(params) \/ i > Len(expected) THEN [ok |-> TRUE, vals |-> <<>>]
    ELSE LET ty == expected[i].type
             one == IF ty = "float"
                    THEN LET f == PyFloat(params[i])
                         IN  [ok |-> f.ok, val |-> FloatV(f.val)]
                    ELSE IF ty = "int"
                    THEN LET n == PyInt(params[i])
                         IN  [ok |-> n.ok, val |-> IntV(n.val)]
                    ELSE [ok |-> TRUE, val |-> StrV(params[i])]
             rest == ConvertParams(params, expected, i + 1)
         IN  IF one.ok /\ rest.ok
             THEN [ok |-> TRUE, vals |-> <<one.val>> \o rest.vals]
             ELSE [ok |-> FALSE, vals |-> <<>>]

ToolError(tool_name, what) ==
    [kind |-> "error", tool |-> tool_name, text |-> <<what>>]

execute_tool_call(tools, doc, call) ==
    IF ~HasTool(tools, call.name)
    THEN [result |-> [kind |-> "notfound", tool |-> call.name,
                      text |-> <<"Error: Tool not found">>],
          doc |-> doc, invoked |-> <<>>]
    ELSE LET tool == get_tool(tools, call.name)
             c == ConvertParams(call.parameters, tool.parameters, 1)
         IN  IF ~c.ok
             THEN [result |-> ToolError(call.name, "ValueError"),
                   doc |-> doc, invoked |-> <<>>]
             ELSE IF Len(c.vals) # Arity(tool.function)
             THEN [result |-> ToolError(call.name, "TypeError"),
                   doc |-> doc, invoked |-> <<>>]
             ELSE LET r == ApplyTool(tool.function, doc, c.vals)
                  IN  [result |-> [kind |-> "executed", tool |-> call.name,
                                   text |-> r.result],
                       doc |-> r.doc,
                       invoked |-> <<[function |-> tool.function,
                                      args |-> c.vals]>>]

\* the number of lines of the string _execute_tool_call returned: the
\* error and not-found strings are one line, an executed tool's string is
\* a prefix followed by what the tool function returned
LinesOfResult(tools, result) ==
    IF result.kind = "executed"
    THEN LinesOfReturn(get_tool(tools, result.tool).function, result.text)
    ELSE 1

RECURSIVE LinesOfJoin(_, _)
\* the number of lines of "\n".join(tool_results)
LinesOfJoin(tools, results) ==
    IF results = <<>> THEN 0
    ELSE LinesOfResult(tools, Head(results))
             + LinesOfJoin(tools, Tail(results))

(***************************************************************************)
(* Inputs of the model: what the user types, the models of the combo box   *)
(* the user picks from, and the texts the chat-completion service replies. *)
(***************************************************************************)
T_hi == <<"h", "i">>

\* QTextEdit contents the user may have typed when Send is clicked
Inputs == {<<>>, <<" ">>, T_hi, <<" ">> \o T_hi \o <<" ", " ">>}

\* items of model_combo the model uses (the first is the default)
Models == {"gpt-3.5-turbo", "gpt-4"}

T_plain == <<"o", "k">>

T_box ==
    <<"c", "r", "e", "a", "t", "e", "_", "b", "o", "x", "(", "1", "0", ",",
      " ", "2", "0", ",", " ", "3", "0", ")">>

T_sphere ==
    <<"c", "r", "e", "a", "t", "e", "_", "s", "p", "h", "e", "r", "e", "(",
      "5", ")">>

T_sphere25 == N_create_sphere \o <<"(", "2", ".", "5", ")">>

T_two ==
    <<"c", "r", "e", "a", "t", "e", "_", "d", "o", "c", "u", "m", "e", "n",
      "t", "(", "d", ")", " ", "c", "r", "e", "a", "t", "e", "_", "s", "p",
      "h", "e", "r", "e", "(", "2", ".", "5", ")">>

\* create_sphere(x) create_sphere(2.5) list_objects(): a call that fails,
\* then two more
T_three ==
    N_create_sphere \o <<"(", "x", ")", " ">> \o T_sphere25
        \o <<" ">> \o N_list_objects \o <<"(", ")">>

T_unknown == <<"f", "o", "o", "(", "1", ")">>

\* message.content of the replies of the service in the chat system: a
\* text without a call, and one with two calls
Replies == {T_plain, T_two}

FollowupReplies == {T_plain}

\* how a request fails: the call raises
RequestFailures == {"raise"}

\* for the connector alone, more of each: texts with calls that fail, an
\* unregistered name, None; a reply without choices
AllReplies == {T_plain, T_box, T_sphere, T_two, T_three, T_unknown, PyNone}

AllFollowupReplies == {T_plain, PyNone}

AllRequestFailures == {"raise", "nochoices"}

(***************************************************************************)
(* State.                                                                  *)
(***************************************************************************)
VARIABLES
    GuiUp,                  \* FreeCAD.GuiUp
    envKey,                 \* OPENAI_API_KEY is set in os.environ
    openaiInstalled,        \* the openai package can be imported
    chat_window_instance,   \* _chat_window_instance: 0 is None, else the
                            \* number of the ChatWindow
    windowsCreated,         \* ChatWindow (and LLMConnector) constructions
    visible,                \* the dock widget is visible
    model_name,             \* LLMConnector.model_name
    api_key,                \* LLMConnector.api_key
    tools,                  \* LLMConnector.tool_registry.tools
    conversation_history,   \* LLMConnector.conversation_history
    message_input,          \* ChatWindow.message_input
    chat_layout,            \* the widgets of ChatWindow.chat_layout
    eventQueue,             \* queued slot invocations for the GUI thread
    timers,                 \* pending QTimer.singleShot(500, showDockWindow)
    threads,                \* the background threads of on_send_message
    nSends,                 \* threads started so far
    ActiveDocument,         \* FreeCAD.ActiveDocument
    bgAccess,               \* <<field, "r" or "w">> accesses made by
                            \* background threads
    direct,                 \* a direct application of _extract_tool_calls
                            \* and _execute_tool_call to a drawn input
    lastEvent               \* the latest call of the host application into
                            \* the module, with what it returned

vars ==
    <<GuiUp, envKey, openaiInstalled, chat_window_instance, windowsCreated,
      visible, model_name, api_key, tools, conversation_history,
      message_input, chat_layout, eventQueue, timers, threads, nSends,
      ActiveDocument, bgAccess, direct, lastEvent>>

envVars == <<GuiUp, envKey, openaiInstalled>>
windowVars == <<chat_window_instance, windowsCreated, visible>>
connectorVars == <<model_name, api_key, tools, conversation_history>>
panelVars == <<message_input, chat_layout>>
threadVars == <<threads, nSends, bgAccess, direct>>

Tids == 1..MaxSends

\* a history entry; by is the thread that appended it (not in the code)
Entry(role, content, results, by) ==
    [role |-> role, content |-> content, results |-> results, by |-> by]

SystemEntry == Entry("system", <<"system_prompt">>, <<>>, 0)

\* what send_message returns (or raises): kind tells which of its returns
NoRet ==
    [kind |-> "none", reply |-> <<>>, results |-> <<>>, followup |-> <<>>]

RetOf(kind) == [NoRet EXCEPT !.kind = kind]

\* the kinds of return value that are Python strings
StringKinds == {"nokey", "nopackage", "error", "reply", "full"}

IdleThread ==
    [pc |-> "idle", message |-> <<>>, messages |-> <<>>, reply |-> <<>>,
     extracted |-> FALSE, calls |-> <<>>, results |-> <<>>,
     invoked |-> <<>>, requests |-> <<>>, outcomes |-> <<>>, ret |-> NoRet]

Widget(kind, sender_type, text, tid, ret) ==
    [kind |-> kind, sender_type |-> sender_type, text |-> text, tid |-> tid,
     ret |-> ret]

\* what a direct caller of the two parsing methods was given: the tool name,
\* the argument texts as written and the numbers they denote (thousandths)
NoSrc == [kind |-> "none", name |-> <<>>, lits |-> <<>>, vals |-> <<>>]

NoDirect ==
    [stage |-> "none", src |-> NoSrc, text |-> <<>>, raised |-> FALSE,
     calls |-> <<>>, results |-> <<>>, invoked |-> <<>>]

\* a file given to AiAssistantImport.open: whether it can be read, whether
\* it holds JSON, the type of the top-level value, and which of the words
\* conversation and settings are "in" that value (keys of an object,
\* elements of an array, substrings of a string)
File(readable, json, type, has) ==
    [readable |-> readable, json |-> json, type |-> type, has |-> has]

NoFile == File(FALSE, FALSE, "nofile", {})

\* a call of the host application: the entry point, the file (of open),
\* whether showChatWindow was called, what that returned and whether it
\* created the window, and the result and whether an exception escaped
\* (of open)
Event(op, file, shown, window, created, result, raised) ==
    [op |-> op, file |-> file, shown |-> shown, window |-> window,
     created |-> created, result |-> result, raised |-> raised]

NoEvent == Event("none", NoFile, FALSE, 0, FALSE, FALSE, FALSE)

ShowEvent(op, window, created) ==
    Event(op, NoFile, TRUE, window, created, FALSE, FALSE)

Init ==
    /\ GuiUp \in BOOLEAN
    /\ envKey \in BOOLEAN
    /\ openaiInstalled \in BOOLEAN
    /\ chat_window_instance = 0
    /\ windowsCreated = 0
    /\ visible = FALSE
    /\ model_name = None
    /\ api_key = None
    /\ tools = EmptyTools
    /\ conversation_history = <<>>
    /\ message_input = <<>>
    /\ chat_layout = <<>>
    /\ eventQueue = <<>>
    /\ timers = 0
    /\ threads = [t \in Tids |-> IdleThread]
    /\ nSends = 0
    /\ ActiveDocument = NoDocument
    /\ bgAccess = {}
    /\ direct = NoDirect
    /\ lastEvent = NoEvent

(***************************************************************************)
(* showChatWindow, with ChatWindow.__init__ and LLMConnector.__init__.     *)
(* The operator is the state change; the actions below are its callers.    *)
(***************************************************************************)
\* ChatWindow.__init__: the connector, the panel with the welcome message
ChatWindowInit ==
    /\ windowsCreated' = windowsCreated + 1
    /\ chat_window_instance' = windowsCreated + 1
    /\ model_name' = "gpt-3.5-turbo"
    /\ api_key' = None
    /\ tools' = NewToolRegistry
    /\ conversation_history' = <<>>
    /\ message_input' = <<>>
    /\ chat_layout' = <<Widget("welcome", "assistant", <<>>, 0, NoRet)>>

\* showChatWindow without the test for an existing instance
showChatWindowAlwaysNew ==
    /\ ChatWindowInit
    /\ visible' = TRUE

showChatWindow ==
    /\ IF chat_window_instance = 0
       THEN ChatWindowInit
       ELSE UNCHANGED <<windowsCreated, chat_window_instance, connectorVars,
                        panelVars>>
    /\ visible' = TRUE

\* OpenChatCommand.Activated (the toolbar button or menu entry)
OpenChatCommand_Activated ==
    /\ GuiUp
    /\ showChatWindow
    /\ lastEvent' = ShowEvent("OpenChatCommand", chat_window_instance',
                            chat_window_instance = 0)
    /\ UNCHANGED <<envVars, eventQueue, timers, threadVars, ActiveDocument>>

(***************************************************************************)
(* The handlers of the chat window (GUI thread).                           *)
(***************************************************************************)
on_model_changed(m) ==
    /\ chat_window_instance # 0
    /\ m # model_name          \* currentTextChanged
    /\ model_name' = m
    /\ UNCHANGED <<envVars, windowVars, api_key, tools, conversation_history,
                   panelVars, eventQueue, timers, threadVars, ActiveDocument,
                   lastEvent>>

\* ok: the dialog was accepted; key: the text entered (None when empty)
on_set_api_key(ok, key) ==
    /\ chat_window_instance # 0
    /\ IF ok /\ key # None
       THEN api_key' = key
       ELSE UNCHANGED api_key
    /\ UNCHANGED <<envVars, windowVars, model_name, tools,
                   conversation_history, panelVars, eventQueue, timers,
                   threadVars, ActiveDocument, lastEvent>>

\* ChatWindow.add_message: one more message widget
add_widget(layout, w) == Append(layout, w)

\* an on_send_message that tests and sends the text as typed
on_send_message_unstripped(text) ==
    /\ chat_window_instance # 0
    /\ IF text = <<>>
       THEN /\ message_input' = text
            /\ UNCHANGED <<chat_layout, threads, nSends>>
       ELSE /\ nSends < MaxSends
            /\ message_input' = <<>>
            /\ chat_layout' =
                   Append(add_widget(chat_layout,
                              Widget("message", "user", text, 0, NoRet)),
                          Widget("thinking", "assistant", <<>>, nSends + 1,
                                 NoRet))
            /\ nSends' = nSends + 1
            /\ threads' = [threads EXCEPT ![nSends + 1] =
                   [IdleThread EXCEPT !.pc = "add_user", !.message = text]]
    /\ UNCHANGED <<envVars, windowVars, connectorVars, eventQueue, timers,
                   bgAccess, direct, ActiveDocument, lastEvent>>

\* text: what the user has typed into message_input when Send is clicked
on_send_message(text) ==
    /\ chat_window_instance # 0
    /\ LET message == Strip(text, Whitespace)
       IN  IF message = <<>>
           THEN /\ message_input' = text
                /\ UNCHANGED <<chat_layout, threads, nSends>>
           ELSE /\ nSends < MaxSends
                /\ message_input' = <<>>
                /\ chat_layout' =
                       Append(add_widget(chat_layout,
                                  Widget("message", "user", message, 0, NoRet)),
                              Widget("thinking", "assistant", <<>>, nSends + 1,
                                     NoRet))
                /\ nSends' = nSends + 1
                /\ threads' = [threads EXCEPT ![nSends + 1] =
                       [IdleThread EXCEPT !.pc = "add_user",
                                          !.message = message]]
    /\ UNCHANGED <<envVars, windowVars, connectorVars, eventQueue, timers,
                   bgAccess, direct, ActiveDocument, lastEvent>>

\* the slot ChatWindow.update_ui, run by the GUI thread for a queued call
update_ui(layout, ev) == layout

DeliverEvent ==
    /\ eventQueue # <<>>
    /\ chat_layout' = update_ui(chat_layout, Head(eventQueue))
    /\ eventQueue' = Tail(eventQueue)
    /\ UNCHANGED <<envVars, windowVars, connectorVars, message_input, timers,
                   threadVars, ActiveDocument, lastEvent>>

(***************************************************************************)
(* LLMConnector.send_message, run by the background thread t that          *)
(* on_send_message started (process_message).  One action per step that    *)
(* reads or writes state shared with other threads; pc is the position.    *)
(* When send_message returns, process_message queues the slot update_ui    *)
(* for the GUI thread: QMetaObject.invokeMethod(self, "update_ui",         *)
(* Qt.QueuedConnection); the thread is then done.                          *)
(***************************************************************************)
\* an add_message that keeps only the new entry
add_message_replacing(history, role, content, results, by) ==
    <<Entry(role, content, results, by)>>

\* LLMConnector.add_message
add_message(history, role, content, results, by) ==
    Append(history, Entry(role, content, results, by))

\* a send_message that lets the exception escape
send_message_reraises == RetOf("raised")

\* the except clause of send_message: the value returned for an exception
send_message_except == RetOf("error")

\* a send_message that issues the first request again after a failure
RetryAfterFailure == "request1"

\* where send_message continues after a request raised: it returns
AfterRequestFailure == "done"

\* a request that carries only the last message of the list
RequestLastOnly(th, messages) ==
    [th EXCEPT !.requests = Append(@, <<messages[Len(messages)]>>)]

\* client.chat.completions.create(model=self.model_name, messages=messages)
\* is called with the message list: one more request
Request(th, messages) == [th EXCEPT !.requests = Append(@, messages)]

Access(what) == bgAccess' = bgAccess \cup what

SetThread(t, new) == threads' = [threads EXCEPT ![t] = new]

\* send_message returns ret, and process_message queues update_ui
Return(th, ret) == [th EXCEPT !.pc = "done", !.ret = ret]

Notify(t) ==
    eventQueue' =
        IF threads'[t].pc = "done"
        THEN Append(eventQueue, [slot |-> "update_ui", tid |-> t])
        ELSE eventQueue

\* a send_message that adds the user message only after its checks
SendAddUserSkips(t) ==
    /\ threads[t].pc = "add_user"
    /\ SetThread(t, [threads[t] EXCEPT !.pc = "check_key"])
    /\ Notify(t)
    /\ UNCHANGED <<envVars, windowVars, connectorVars, panelVars, timers,
                   nSends, bgAccess, ActiveDocument, direct, lastEvent>>

SendAddUser(t) ==
    /\ threads[t].pc = "add_user"
    /\ conversation_history' =
           add_message(conversation_history, "user", threads[t].message,
                       <<>>, t)
    /\ SetThread(t, [threads[t] EXCEPT !.pc = "check_key"])
    /\ Notify(t)
    /\ Access({<<"conversation_history", "w">>})
    /\ UNCHANGED <<envVars, windowVars, model_name, api_key, tools,
                   panelVars, timers, nSends, ActiveDocument, direct,
                   lastEvent>>

\* "if not self.api_key": fall back to the environment variable, or return
SendCheckKey(t) ==
    /\ threads[t].pc = "check_key"
    /\ IF api_key # None
       THEN /\ SetThread(t, [threads[t] EXCEPT !.pc = "client"])
            /\ Access({<<"api_key", "r">>})
            /\ UNCHANGED api_key
       ELSE IF envKey
       THEN /\ api_key' = "env"
            /\ SetThread(t, [threads[t] EXCEPT !.pc = "client"])
            /\ Access({<<"api_key", "r">>, <<"api_key", "w">>})
       ELSE /\ SetThread(t, Return(threads[t], RetOf("nokey")))
            /\ Access({<<"api_key", "r">>})
            /\ UNCHANGED api_key
    /\ Notify(t)
    /\ UNCHANGED <<envVars, windowVars, model_name, tools,
                   conversation_history, panelVars, timers, nSends,
                   ActiveDocument, direct, lastEvent>>

\* import openai; openai.OpenAI(api_key=self.api_key); then the message
\* list [system] + conversation_history.  constructed: the constructor
\* did not raise
SendClient(t, constructed) ==
    /\ threads[t].pc = "client"
    /\ IF ~openaiInstalled
       THEN /\ SetThread(t, Return(threads[t], RetOf("nopackage")))
            /\ UNCHANGED bgAccess
       ELSE IF ~constructed
       THEN /\ SetThread(t, Return(threads[t], send_message_except))
            /\ Access({<<"api_key", "r">>})
       ELSE /\ SetThread(t, [threads[t] EXCEPT
                    !.pc = "request1",
                    !.messages = <<SystemEntry>> \o conversation_history])
            /\ Access({<<"api_key", "r">>, <<"conversation_history", "r">>})
    /\ Notify(t)
    /\ UNCHANGED <<envVars, windowVars, connectorVars, panelVars, timers,
                   nSends, ActiveDocument, direct, lastEvent>>

\* the first request raised, or response.choices[0] did
SendRequest1Fail(t, how) ==
    /\ threads[t].pc = "request1"
    /\ SetThread(t, [Request(threads[t], threads[t].messages) EXCEPT
           !.pc = AfterRequestFailure,
           !.outcomes = Append(@, how),
           !.ret = send_message_except])
    /\ Notify(t)
    /\ Access({<<"model_name", "r">>})
    /\ UNCHANGED <<envVars, windowVars, connectorVars, panelVars, timers,
                   nSends, ActiveDocument, direct, lastEvent>>

\* the first request is made and the reply arrives: it is added to the
\* history and searched for tool calls
SendRequest1(t, reply) ==
    /\ threads[t].pc = "request1"
    /\ conversation_history' =
           add_message(conversation_history, "assistant", reply, <<>>, t)
    /\ LET x == extract_tool_calls(tools, reply)
           th == [Request(threads[t], threads[t].messages) EXCEPT
                     !.outcomes = Append(@, "ok"),
                     !.reply = reply, !.extracted = TRUE]
       IN  IF x.raised
           THEN SetThread(t, Return(th, send_message_except))
           ELSE IF x.calls = <<>>
           THEN SetThread(t, Return(th,
                    [RetOf("reply") EXCEPT !.reply = reply]))
           ELSE SetThread(t, [th EXCEPT !.pc = "exec", !.calls = x.calls])
    /\ Notify(t)
    /\ Access({<<"model_name", "r">>, <<"conversation_history", "w">>})
    /\ UNCHANGED <<envVars, windowVars, model_name, api_key, tools,
                   panelVars, timers, nSends, ActiveDocument, direct,
                   lastEvent>>

\* one turn of "for call in tool_calls": call i is executed, e is what
\* _execute_tool_call did
ExecTool(t, i, e) ==
    /\ ActiveDocument' = e.doc
    /\ SetThread(t, [threads[t] EXCEPT
           !.results = Append(@, e.result),
           !.invoked = @ \o e.invoked,
           !.pc = IF i = Len(threads[t].calls) THEN "followup" ELSE "exec"])
    /\ Access(IF e.invoked = <<>> THEN {}
              ELSE IF e.doc = ActiveDocument
              THEN {<<"ActiveDocument", "r">>}
              ELSE {<<"ActiveDocument", "r">>, <<"ActiveDocument", "w">>})

\* a loop that takes the calls from the last to the first
NextCallBackwards(t) ==
    threads[t].calls[Len(threads[t].calls) - Len(threads[t].results)]

NextCall(t) == threads[t].calls[Len(threads[t].results) + 1]

SendExecTool(t) ==
    /\ threads[t].pc = "exec"
    /\ ExecTool(t, Len(threads[t].results) + 1,
                execute_tool_call(tools, ActiveDocument, NextCall(t)))
    /\ Notify(t)
    /\ UNCHANGED <<envVars, windowVars, connectorVars, panelVars, timers,
                   nSends, direct, lastEvent>>

\* the function entry is added and the follow-up request is sent, with the
\* message list of the first request and the two new messages
SendFollowup(t) ==
    /\ threads[t].pc = "followup"
    /\ conversation_history' =
           add_message(conversation_history, "function", <<>>,
                       threads[t].results, t)
    /\ SetThread(t, [Request(threads[t],
               threads[t].messages \o
                   <<Entry("assistant", threads[t].reply, <<>>, t),
                     Entry("function", <<>>, threads[t].results, t)>>)
           EXCEPT !.pc = "response2"])
    /\ Notify(t)
    /\ Access({<<"conversation_history", "w">>, <<"model_name", "r">>})
    /\ UNCHANGED <<envVars, windowVars, model_name, api_key, tools,
                   panelVars, timers, nSends, ActiveDocument, direct,
                   lastEvent>>

\* a failure of the follow-up that also records the error in the history
SendResponse2FailAppends(t, how) ==
    /\ threads[t].pc = "response2"
    /\ conversation_history' =
           add_message(conversation_history, "assistant", <<"Error">>, <<>>, t)
    /\ SetThread(t, [threads[t] EXCEPT
           !.pc = AfterRequestFailure,
           !.outcomes = Append(@, how),
           !.ret = send_message_except])
    /\ Notify(t)
    /\ UNCHANGED <<envVars, windowVars, model_name, api_key, tools,
                   panelVars, timers, nSends, bgAccess, ActiveDocument,
                   direct, lastEvent>>

\* the follow-up request raised, or followup_response.choices[0] did
SendResponse2Fail(t, how) ==
    /\ threads[t].pc = "response2"
    /\ SetThread(t, [threads[t] EXCEPT
           !.pc = AfterRequestFailure,
           !.outcomes = Append(@, how),
           !.ret = send_message_except])
    /\ Notify(t)
    /\ UNCHANGED <<envVars, windowVars, connectorVars, panelVars, timers,
                   nSends, bgAccess, ActiveDocument, direct, lastEvent>>

\* the follow-up reply is added to the history; the returned string is
\* reply, results and follow-up joined, which raises TypeError for None
SendResponse2(t, followup) ==
    /\ threads[t].pc = "response2"
    /\ conversation_history' =
           add_message(conversation_history, "assistant", followup, <<>>, t)
    /\ SetThread(t, Return([threads[t] EXCEPT !.outcomes = Append(@, "ok")],
           IF followup = PyNone THEN send_message_except
           ELSE [kind |-> "full", reply |-> threads[t].reply,
                 results |-> threads[t].results, followup |-> followup]))
    /\ Notify(t)
    /\ Access({<<"conversation_history", "w">>})
    /\ UNCHANGED <<envVars, windowVars, model_name, api_key, tools,
                   panelVars, timers, nSends, ActiveDocument, direct,
                   lastEvent>>

\* a step of thread t; the service answers a request with a text of
\* replies (followups for the second request) or fails as in failures
ThreadStep(t, replies, followups, failures) ==
    \/ SendAddUser(t)
    \/ SendCheckKey(t)
    \/ \E constructed \in BOOLEAN : SendClient(t, constructed)
    \/ \E how \in failures : SendRequest1Fail(t, how)
    \/ \E reply \in replies : SendRequest1(t, reply)
    \/ SendExecTool(t)
    \/ SendFollowup(t)
    \/ \E how \in failures : SendResponse2Fail(t, how)
    \/ \E followup \in followups : SendResponse2(t, followup)

(***************************************************************************)
(* The chat system: the window is opened from its command, the user       *)
(* types, picks a model, sets a key and clicks Send; the background        *)
(* threads run; the GUI thread runs the queued calls.                      *)
(***************************************************************************)
ApiKeyInputs == {None, "user"}

Next ==
    \/ OpenChatCommand_Activated
    \/ \E m \in Models : on_model_changed(m)
    \/ \E ok \in BOOLEAN, key \in ApiKeyInputs : on_set_api_key(ok, key)
    \/ \E text \in Inputs : on_send_message(text)
    \/ DeliverEvent
    \/ \E t \in Tids : ThreadStep(t, Replies, FollowupReplies, RequestFailures)

Spec == Init /\ [][Next]_vars

(***************************************************************************)
(* The other entry points of the host application: the workbench           *)
(* (InitGui.py), the import of a JSON file (AiAssistantImport.py), and     *)
(* the user closing the dock widget.                                       *)
(***************************************************************************)
\* AiAssistantWorkbench.Activated: a single-shot timer for showDockWindow
Workbench_Activated ==
    /\ IF GuiUp
       THEN /\ timers < MaxTimers
            /\ timers' = timers + 1
       ELSE UNCHANGED timers
    /\ lastEvent' = Event("Workbench.Activated", NoFile, FALSE, 0, FALSE,
                          TRUE, FALSE)
    /\ UNCHANGED <<envVars, windowVars, connectorVars, panelVars, eventQueue,
                   threadVars, ActiveDocument>>

\* AiAssistantWorkbench.showDockWindow, when the timer fires
showDockWindow ==
    /\ timers > 0
    /\ timers' = timers - 1
    /\ showChatWindow
    /\ lastEvent' = ShowEvent("showDockWindow", chat_window_instance',
                            chat_window_instance = 0)
    /\ UNCHANGED <<envVars, eventQueue, threadVars, ActiveDocument>>

\* the user closes the dock widget (QDockWidget is closable): it is hidden
CloseDock ==
    /\ chat_window_instance # 0
    /\ visible
    /\ visible' = FALSE
    /\ lastEvent' = Event("close", NoFile, FALSE, 0, FALSE, FALSE, FALSE)
    /\ UNCHANGED <<envVars, chat_window_instance, windowsCreated,
                   connectorVars, panelVars, eventQueue, timers, threadVars,
                   ActiveDocument>>

\* the number of parameters of the module's function open(filename)
OpenParams == 1

\* "with open(filename, 'r') as f" inside AiAssistantImport: the name open
\* is the module's own function open, which shadows the builtin, called
\* here with nargs arguments.  TypeError when the count is not OpenParams;
\* the builtin would give OSError for an unreadable file
CallOpen(file, nargs) ==
    IF nargs # OpenParams THEN "TypeError"
    ELSE IF ~file.readable THEN "OSError"
    ELSE "ok"

\* json.load(f)
JsonLoad(file) == IF file.json THEN "ok" ELSE "JSONDecodeError"

\* "word in data": TypeError for a value that is no container
InRaises(file) == file.type \notin {"dict", "list", "str"}

In(word, file) == word \in file.has

\* what open returns in its except clause, and for an unknown format
ImportExceptReturnsTrue == [ret |-> TRUE, raised |-> FALSE, show |-> FALSE]

ImportExcept == [ret |-> FALSE, raised |-> FALSE, show |-> FALSE]

ImportUnknown == [ret |-> FALSE, raised |-> FALSE, show |-> FALSE]

\* the branches that load a conversation or settings
ImportLoaded(gui) == [ret |-> TRUE, raised |-> FALSE, show |-> gui]

\* AiAssistantImport.open(filename): [ret, raised, show], show telling
\* whether showChatWindow is called
import_open(file, gui) ==
    IF CallOpen(file, 2) # "ok" THEN ImportExcept
    ELSE IF JsonLoad(file) # "ok" THEN ImportExcept
    ELSE IF InRaises(file) THEN ImportExcept
    ELSE IF In("conversation", file) THEN ImportLoaded(gui)
    ELSE IF In("settings", file) THEN ImportLoaded(gui)
    ELSE ImportUnknown

JsonTypes == {"dict", "list", "str"}

Files ==
    {File(FALSE, FALSE, "none", {}), File(TRUE, FALSE, "none", {}),
     File(TRUE, TRUE, "number", {})}
    \cup {File(TRUE, TRUE, ty, has) :
             ty \in JsonTypes, has \in SUBSET {"conversation", "settings"}}

\* the state change of open, r being import_open's outcome
ImportOpenWith(file, r) ==
    /\ IF r.show
       THEN showChatWindow
       ELSE UNCHANGED <<windowVars, connectorVars, panelVars>>
    /\ lastEvent' = Event("open", file, r.show,
                          IF r.show THEN chat_window_instance' ELSE 0,
                          r.show /\ chat_window_instance = 0,
                          r.ret, r.raised)

ImportOpen(file) ==
    /\ ImportOpenWith(file, import_open(file, GuiUp))
    /\ UNCHANGED <<envVars, eventQueue, timers, threadVars, ActiveDocument>>

HostNext ==
    \/ OpenChatCommand_Activated
    \/ Workbench_Activated
    \/ showDockWindow
    \/ CloseDock
    \/ \E file \in Files : ImportOpen(file)
    \/ \E m \in Models : on_model_changed(m)
    \/ \E ok \in BOOLEAN, key \in ApiKeyInputs : on_set_api_key(ok, key)

HostSpec == Init /\ [][HostNext]_vars

(***************************************************************************)
(* The connector alone: a window has been constructed and one Send click   *)
(* has started thread 1; the service may answer with any of the texts and  *)
(* fail in any of the ways.  Beside it, a caller applies                   *)
(* _extract_tool_calls to a text and _execute_tool_call to each call       *)
(* found, or _execute_tool_call to a call it built itself.                 *)
(***************************************************************************)
RECURSIVE Join(_, _)
\* the argument texts as written between the parentheses
Join(lits, sep) ==
    IF lits = <<>> THEN <<>>
    ELSE IF Len(lits) = 1 THEN lits[1]
    ELSE lits[1] \o sep \o Join(Tail(lits), sep)

\* "use_tool(param1, param2)"
CallText(name, lits, sep) == name \o <<"(">> \o Join(lits, sep) \o <<")">>

Src(kind, name, lits, vals) ==
    [kind |-> kind, name |-> name, lits |-> lits, vals |-> vals]

\* how the arguments are separated: as in the pattern comment of
\* _extract_tool_calls (comma and space), by a comma alone, by a space alone
Separators == {<<",", " ">>, <<",">>, <<" ">>}

\* calls written with numeric literals, with the numbers they denote
LiteralCalls ==
    {Src("literals", N_create_box, <<<<"1", "0">>, <<"2", "0">>, <<"3", "0">>>>,
         <<10000, 20000, 30000>>),
     Src("literals", N_create_box,
         <<<<"1", ".", "5">>, <<"2">>, <<"0", ".", "2", "5">>>>,
         <<1500, 2000, 250>>),
     Src("literals", N_create_sphere, <<<<"5">>>>, <<5000>>),
     Src("literals", N_create_sphere, <<<<"2", ".", "5">>>>, <<2500>>)}

\* calls handed to _execute_tool_call as dictionaries, with the numbers
\* their float parameters denote: more parameters than the schema has
\* ("floats": all of the schema are float; "named": the first of the
\* schema is a string and its number is not used), and exactly as many
CoercedCalls ==
    {Src("floats", N_create_sphere, <<<<"5">>, <<"7">>>>, <<5000>>),
     Src("floats", N_create_box, <<<<"1">>, <<"2", ".", "5">>, <<"3">>>>,
         <<1000, 2500, 3000>>),
     Src("named", N_move_object,
         <<N_Sphere, <<"1">>, <<"2">>, <<"3">>, <<"9">>>>,
         <<0, 1000, 2000, 3000>>),
     Src("named", N_create_document, <<<<"1", "2">>>>, <<0>>)}

\* calls handed to _execute_tool_call as dictionaries: an unregistered
\* name, a parameter that is no number, too few parameters
RawCalls ==
    {Src("unregistered", <<"f", "o", "o">>, <<<<"1">>>>, <<>>),
     Src("badparam", N_create_sphere, <<<<"a", "b", "c">>>>, <<>>),
     Src("arity", N_create_box, <<<<"1">>>>, <<>>)}
    \cup CoercedCalls

\* texts that name tools and other words as calls, in the order written
NamedCalls ==
    {Src("names", <<>>,
         <<N_list_objects, <<"f", "o", "o">>, N_create_sphere>>, <<>>),
     Src("names", <<>>, <<<<"f", "o", "o">>, N_Box>>, <<>>),
     Src("names", <<>>, <<N_create_sphere, N_create_sphere>>, <<>>),
     Src("names", <<>>, <<>>, <<>>)}

RECURSIVE NamesText(_)
\* "so name(2) so name(2) ... ok"
NamesText(names) ==
    IF names = <<>> THEN T_plain
    ELSE <<"s", "o", " ">> \o CallText(Head(names), <<<<"2">>>>, <<>>)
             \o <<" ">> \o NamesText(Tail(names))

DirectInputs ==
    {[NoDirect EXCEPT !.stage = "input", !.src = c,
                      !.text = CallText(c.name, c.lits, sep)] :
         c \in LiteralCalls, sep \in Separators}
    \cup
    {[NoDirect EXCEPT !.stage = "input", !.src = c,
                      !.text = NamesText(c.lits)] : c \in NamedCalls}
    \cup
    {[NoDirect EXCEPT !.stage = "extracted", !.src = c,
                      !.calls = <<[name |-> c.name, parameters |-> c.lits]>>] :
         c \in RawCalls}

ConnectorInit ==
    /\ GuiUp = TRUE
    /\ envKey \in BOOLEAN
    /\ openaiInstalled \in BOOLEAN
    /\ chat_window_instance = 1
    /\ windowsCreated = 1
    /\ visible = TRUE
    /\ model_name = "gpt-3.5-turbo"
    /\ api_key = None
    /\ tools = NewToolRegistry
    /\ conversation_history = <<>>
    /\ message_input = <<>>
    /\ chat_layout = <<Widget("welcome", "assistant", <<>>, 0, NoRet),
                       Widget("message", "user", T_hi, 0, NoRet),
                       Widget("thinking", "assistant", <<>>, 1, NoRet)>>
    /\ eventQueue = <<>>
    /\ timers = 0
    /\ threads = [t \in Tids |->
                     IF t = 1
                     THEN [IdleThread EXCEPT !.pc = "add_user",
                                             !.message = T_hi]
                     ELSE IdleThread]
    /\ nSends = 1
    /\ ActiveDocument \in {NoDocument, newDocument(<<"d">>)}
    /\ bgAccess = {}
    /\ direct \in DirectInputs
    /\ lastEvent = NoEvent

\* x is what _extract_tool_calls(direct.text) returned
DirectExtractWith(x) ==
    direct' = [direct EXCEPT
        !.stage = IF x.calls = <<>> THEN "executed" ELSE "extracted",
        !.raised = x.raised,
        !.calls = x.calls]

DirectExtract ==
    /\ direct.stage = "input"
    /\ DirectExtractWith(extract_tool_calls(tools, direct.text))
    /\ UNCHANGED <<envVars, windowVars, connectorVars, panelVars, eventQueue,
                   timers, threads, nSends, bgAccess, ActiveDocument,
                   lastEvent>>

\* e is what _execute_tool_call(direct.calls[i]) did
DirectExecuteWith(i, e) ==
    /\ ActiveDocument' = e.doc
    /\ direct' = [direct EXCEPT
           !.stage = IF i = Len(direct.calls) THEN "executed" ELSE "extracted",
           !.results = Append(@, e.result),
           !.invoked = @ \o e.invoked]

DirectExecute ==
    /\ direct.stage = "extracted"
    /\ DirectExecuteWith(Len(direct.results) + 1,
           execute_tool_call(tools, ActiveDocument,
                             direct.calls[Len(direct.results) + 1]))
    /\ UNCHANGED <<envVars, windowVars, connectorVars, panelVars, eventQueue,
                   timers, threads, nSends, bgAccess, lastEvent>>

ConnectorNext ==
    \/ ThreadStep(1, AllReplies, AllFollowupReplies, AllRequestFailures)
    \/ DeliverEvent
    \/ DirectExtract
    \/ DirectExecute

ConnectorSpec == ConnectorInit /\ [][ConnectorNext]_vars

(***************************************************************************)
(* The chat system used one exchange at a time: the user clicks Send only  *)
(* when no background call is running.  The service may answer with any   *)
(* of the texts and fail in any of the ways.                               *)
(***************************************************************************)
\* the threads that are inside send_message
InFlight == {t \in Tids : threads[t].pc \notin {"idle", "done"}}

SendWhenIdle(text) ==
    /\ InFlight = {}
    /\ on_send_message(text)

SeqNext ==
    \/ OpenChatCommand_Activated
    \/ \E ok \in BOOLEAN, key \in ApiKeyInputs : on_set_api_key(ok, key)
    \/ \E text \in Inputs : SendWhenIdle(text)
    \/ DeliverEvent
    \/ \E t \in Tids :
           ThreadStep(t, AllReplies, AllFollowupReplies, AllRequestFailures)

SeqSpec == Init /\ [][SeqNext]_vars

(***************************************************************************)
(* The tools alone: _execute_tool_call is applied, one call after the      *)
(* other, to calls of every default tool, with names of objects that are   *)
(* in the document and names that are not; the document is none, empty,    *)
(* or holds what the user has drawn.                                       *)
(***************************************************************************)
N_Nope == <<"N", "o", "p", "e">>
N_Out == <<"O", "u", "t">>

Call(name, parameters) == [name |-> name, parameters |-> parameters]

ToolCalls ==
    {Call(N_create_document, <<<<"d">>>>),
     Call(N_create_box, <<<<"1">>, <<"2">>, <<"3">>>>),
     Call(N_create_cylinder, <<<<"1">>, <<"2">>>>),
     Call(N_create_sphere, <<<<"2", ".", "5">>>>),
     Call(N_move_object, <<N_Box, <<"1">>, <<"0">>, <<"0">>>>),
     Call(N_move_object, <<N_Nope, <<"1">>, <<"0">>, <<"0">>>>),
     Call(N_rotate_object, <<N_Box, <<"9", "0">>, <<"0">>, <<"0">>>>),
     Call(N_rotate_object, <<N_Nope, <<"9", "0">>, <<"0">>, <<"0">>>>),
     Call(N_boolean_union, <<N_Box, N_Sphere, N_Out>>),
     Call(N_boolean_union, <<N_Box, N_Nope, N_Out>>),
     Call(N_boolean_union, <<N_Nope, N_Sphere, N_Out>>),
     Call(N_boolean_union, <<N_Box, N_Box, N_Box>>),
     Call(N_boolean_cut, <<N_Box, N_Sphere, N_Out>>),
     Call(N_boolean_cut, <<N_Box, N_Nope, N_Out>>),
     Call(N_boolean_cut, <<N_Nope, N_Sphere, N_Out>>),
     Call(N_list_objects, <<>>),
     Call(N_get_object_info, <<N_Box>>),
     Call(N_get_object_info, <<N_Nope>>)}

\* documents the user may have open: none, an empty one, one with a box,
\* one with a box and a sphere
D_empty == newDocument(<<"d">>)

D_box ==
    addObject(D_empty,
              NewObject(D_empty, "Part::Box", N_Box, <<1000, 2000, 3000>>, <<>>))

D_box_sphere ==
    addObject(D_box, NewObject(D_box, "Part::Sphere", N_Sphere, <<2500>>, <<>>))

Documents == {NoDocument, D_empty, D_box, D_box_sphere}

ToolInit ==
    /\ GuiUp = TRUE
    /\ envKey = FALSE
    /\ openaiInstalled = FALSE
    /\ chat_window_instance = 1
    /\ windowsCreated = 1
    /\ visible = TRUE
    /\ model_name = "gpt-3.5-turbo"
    /\ api_key = None
    /\ tools = NewToolRegistry
    /\ conversation_history = <<>>
    /\ message_input = <<>>
    /\ chat_layout = <<Widget("welcome", "assistant", <<>>, 0, NoRet)>>
    /\ eventQueue = <<>>
    /\ timers = 0
    /\ threads = [t \in Tids |-> IdleThread]
    /\ nSends = 0
    /\ ActiveDocument \in Documents
    /\ bgAccess = {}
    /\ direct = [NoDirect EXCEPT !.stage = "tool"]
    /\ lastEvent = NoEvent

\* e is what _execute_tool_call(call) did
ToolCallWith(call, e) ==
    /\ ActiveDocument' = e.doc
    /\ direct' = [direct EXCEPT !.calls = Append(@, call),
                                !.results = Append(@, e.result),
                                !.invoked = @ \o e.invoked]

ToolCall(call) ==
    /\ direct.stage = "tool"
    /\ Len(direct.calls) < MaxToolCalls
    /\ ToolCallWith(call, execute_tool_call(tools, ActiveDocument, call))
    /\ UNCHANGED <<envVars, windowVars, connectorVars, panelVars, eventQueue,
                   timers, threads, nSends, bgAccess, lastEvent>>

ToolNext == \E call \in ToolCalls : ToolCall(call)

ToolSpec == ToolInit /\ [][ToolNext]_vars

(***************************************************************************)
(* Properties of the host entry points (HostSpec).                         *)
(***************************************************************************)
\* the files the import is meant to accept: readable JSON whose top-level
\* object has the key conversation or the key settings
KnownShape(file) ==
    file.readable /\ file.json /\ file.type = "dict" /\ file.has # {}

\* C5: AiAssistantImport.open returns True for every readable JSON file
\* whose top-level object has the key conversation or settings, and when
\* the GUI is up the chat window is shown.
C5_OpenAcceptsKnownShape ==
    (lastEvent.op = "open" /\ KnownShape(lastEvent.file)) =>
        /\ lastEvent.result = TRUE
        /\ ~lastEvent.raised
        /\ GuiUp => (lastEvent.shown /\ chat_window_instance # 0 /\ visible)

\* C6: AiAssistantImport.open returns False, raises nothing and does not
\* open or create the chat window for a file that is unreadable, is not
\* JSON, or whose top-level value has neither key.
C6_OpenRejectsUnknownShape ==
    (lastEvent.op = "open" /\ ~KnownShape(lastEvent.file)) =>
        /\ lastEvent.result = FALSE
        /\ ~lastEvent.raised
        /\ ~lastEvent.shown
        /\ ~lastEvent.created

\* C6 witness: open was called on valid JSON without either key while the
\* GUI is up, and returned False.
C6_Witness ==
    /\ lastEvent.op = "open"
    /\ GuiUp
    /\ lastEvent.file = File(TRUE, TRUE, "dict", {})
    /\ lastEvent.result = FALSE

ShowOps == {"OpenChatCommand", "showDockWindow", "open"}

\* C10: at most one ChatWindow (with its LLMConnector and history) is ever
\* created, and every showChatWindow call returns that instance and leaves
\* it visible.
C10_Singleton ==
    /\ windowsCreated <= 1
    /\ (chat_window_instance # 0) = (windowsCreated = 1)
    /\ (lastEvent.op \in ShowOps /\ lastEvent.shown) =>
           /\ lastEvent.window = chat_window_instance
           /\ chat_window_instance = 1
           /\ visible

\* C10 witness: the timer's showDockWindow found the window existing (it
\* had been created by the command and closed by the user) and shows it.
C10_Witness ==
    /\ lastEvent.op = "showDockWindow"
    /\ lastEvent.shown
    /\ ~lastEvent.created
    /\ windowsCreated = 1
    /\ visible

(***************************************************************************)
(* Properties of the chat system (Spec).                                   *)
(***************************************************************************)
IsPrefix(a, b) == Len(a) <= Len(b) /\ SubSeq(b, 1, Len(a)) = a

\* C1: the conversation history is append-only: in every step, whatever
\* handler or background thread takes it (a send that succeeds, fails at
\* either request or returns early without a key), the history before the
\* step is a prefix of the history after it
C1_HistoryAppendOnly ==
    [][IsPrefix(conversation_history, conversation_history')]_vars

\* two sends have appended, one of them through the tool follow-up and
\* the other one ending in a failed request
C1_Witness ==
    /\ Len(conversation_history) >= 5
    /\ \E t \in Tids :
           /\ threads[t].pc = "done"
           /\ threads[t].ret.kind = "full"
    /\ \E t \in Tids :
           /\ threads[t].pc = "done"
           /\ threads[t].ret.kind = "error"
           /\ threads[t].outcomes = <<"raise">>

InQueue(t) == \E i \in 1..Len(eventQueue) : eventQueue[i].tid = t

\* C2: once send_message has returned in thread t and the GUI thread has
\* run the call that thread t queued, the Thinking indicator of t is gone
\* from the chat panel and the response is there as an assistant message
C2_ResponseDelivered ==
    \A t \in Tids :
        (threads[t].pc = "done" /\ ~InQueue(t)) =>
            /\ ~\E i \in 1..Len(chat_layout) :
                   /\ chat_layout[i].kind = "thinking"
                   /\ chat_layout[i].tid = t
            /\ \E i \in 1..Len(chat_layout) :
                   /\ chat_layout[i].kind = "message"
                   /\ chat_layout[i].sender_type = "assistant"
                   /\ chat_layout[i].tid = t
                   /\ chat_layout[i].ret = threads[t].ret

\* C3: at most one background call is inside send_message at a time, and
\* the history entries of one exchange are not separated by entries of
\* another
C3_SingleWriter ==
    /\ Cardinality(InFlight) <= 1
    /\ \A i, j, k \in 1..Len(conversation_history) :
           (i < j /\ j < k /\
            conversation_history[i].by = conversation_history[k].by)
               => conversation_history[j].by = conversation_history[i].by

\* C4: the background calls touch no state the GUI thread can write other
\* than the conversation history: they neither read nor write the model
\* name or the API key, and they do not write the CAD document
C4_OnlyHistoryShared ==
    \A a \in bgAccess :
        /\ a[1] \notin {"model_name", "api_key"}
        /\ a # <<"ActiveDocument", "w">>

\* C8: a send_message call issues at most two requests; none when it
\* returns for a missing key or a missing package; once it has returned,
\* two exactly when the first reply yielded a tool call; and a failed
\* request is the last thing the call did (it is not reissued)
C8_RequestCount ==
    \A t \in Tids :
        /\ Len(threads[t].requests) <= 2
        /\ Len(threads[t].outcomes) <= Len(threads[t].requests)
        /\ threads[t].ret.kind \in {"nokey", "nopackage"}
               => threads[t].requests = <<>>
        /\ Len(threads[t].requests) = 2 => threads[t].calls # <<>>
        /\ threads[t].pc = "done"
               => (Len(threads[t].requests) = 2 <=> threads[t].calls # <<>>)
        /\ \A i \in 1..Len(threads[t].outcomes) :
               threads[t].outcomes[i] # "ok" =>
                   /\ i = Len(threads[t].outcomes)
                   /\ i = Len(threads[t].requests)
                   /\ threads[t].pc = "done"

\* one call made two requests and the second failed; another returned
\* without any request
C8_Witness ==
    /\ \E t \in Tids :
           /\ threads[t].pc = "done"
           /\ Len(threads[t].requests) = 2
           /\ threads[t].outcomes = <<"ok", "raise">>
    /\ \E t \in Tids :
           /\ threads[t].pc = "done"
           /\ threads[t].outcomes = <<"raise">>
           /\ Len(threads[t].requests) = 1

(***************************************************************************)
(* Properties of the connector (ConnectorSpec).                            *)
(***************************************************************************)
\* C7: a call written as a registered name and a parenthesised,
\* comma-separated list of numeric literals (create_box(10, 20, 30)) is
\* extracted as one call of that name with one parameter per argument,
\* and executing it invokes the tool function once, with the floats the
\* literals denote
C7_ParsesToFloats ==
    (/\ direct.stage = "executed"
     /\ direct.src.kind = "literals"
     /\ direct.text = CallText(direct.src.name, direct.src.lits, <<",", " ">>))
        =>
        /\ Len(direct.calls) = 1
        /\ direct.calls[1].name = direct.src.name
        /\ Len(direct.calls[1].parameters) = Len(direct.src.lits)
        /\ Len(direct.invoked) = 1
        /\ direct.invoked[1].args =
               [i \in 1..Len(direct.src.vals) |-> FloatV(direct.src.vals[i])]

\* C9: send_message returns a string whatever happens, the Error string
\* when the client constructor, a request or the extraction from a
\* response failed; _execute_tool_call returns the not-found string for
\* an unregistered name and the error string, without having invoked the
\* tool, when a parameter cannot be coerced or the tool function rejects
\* its arguments
C9_ErrorsAreStrings ==
    /\ \A t \in Tids :
           /\ threads[t].ret.kind \in StringKinds \cup {"none"}
           /\ threads[t].pc = "done" =>
                  /\ threads[t].ret.kind \in StringKinds
                  /\ (\E i \in 1..Len(threads[t].outcomes) :
                          threads[t].outcomes[i] # "ok")
                         => threads[t].ret.kind = "error"
                  /\ (/\ threads[t].requests = <<>>
                      /\ openaiInstalled
                      /\ api_key # None)
                         => threads[t].ret.kind = "error"
    /\ ~direct.raised
    /\ \A i \in 1..Len(direct.results) :
           /\ direct.results[i].kind \in {"executed", "error", "notfound"}
           /\ direct.src.kind = "unregistered"
                  => direct.results[i].kind = "notfound"
           /\ direct.src.kind \in {"badparam", "arity"}
                  => (direct.results[i].kind = "error" /\ direct.invoked = <<>>)

\* the send failed at its follow-up request and returned the Error string,
\* and the direct call of an unregistered tool returned not found
C9_Witness ==
    /\ threads[1].pc = "done"
    /\ threads[1].outcomes = <<"ok", "nochoices">>
    /\ threads[1].ret.kind = "error"
    /\ direct.stage = "executed"
    /\ direct.src.kind = "unregistered"
    /\ Len(direct.results) = 1
    /\ direct.results[1].kind = "notfound"

\* the ten names register_default_tools registers
DefaultNames ==
    {N_create_document, N_create_box, N_create_cylinder, N_create_sphere,
     N_move_object, N_rotate_object, N_boolean_union, N_boolean_cut,
     N_list_objects, N_get_object_info}

\* names that are not registered: of no tool, of an object type, of a
\* bound method, the empty name
OtherNames ==
    {<<"f", "o", "o">>, N_Box, <<"_">> \o N_create_box, <<>>}

\* C11: once the registry is constructed it maps exactly the ten default
\* names, each to a descriptor whose name is its key, and stays as
\* constructed whatever send_message, _extract_tool_calls,
\* _execute_tool_call and the tools do; any other name is not found
C11_RegistryStatic ==
    /\ DOMAIN tools = DefaultNames
    /\ Cardinality(DOMAIN tools) = 10
    /\ \A n \in DOMAIN tools : get_tool(tools, n).name = n
    /\ tools = NewToolRegistry
    /\ \A n \in OtherNames : ~HasTool(tools, n) /\ get_tool(tools, n) = None

\* tools have run in the send and a direct call of an unregistered name
\* has returned
C11_Witness ==
    /\ threads[1].pc = "done"
    /\ Len(threads[1].invoked) = 2
    /\ direct.stage = "executed"
    /\ direct.src.kind = "unregistered"
    /\ ActiveDocument.exists
    /\ ActiveDocument.Objects # <<>>

(***************************************************************************)
(* Properties of the chat system used one exchange at a time (SeqSpec).    *)
(***************************************************************************)
Last(q) == q[Len(q)]

\* C12: with one send in flight at a time, the step that issues the first
\* request of a send sends the system prompt followed by the whole history
\* as it is then, which ends with the new user message; the step that
\* appends the function entry and issues the follow-up request sends the
\* system prompt followed by the whole history as it is then, which ends
\* with the assistant reply and the function result
C12_RequestCarriesHistory ==
    [][\A t \in Tids :
        /\ (Len(threads[t].requests) = 0 /\ Len(threads'[t].requests) = 1) =>
               /\ threads'[t].requests[1] =
                      <<SystemEntry>> \o conversation_history
               /\ conversation_history # <<>>
               /\ Last(conversation_history) =
                      Entry("user", threads[t].message, <<>>, t)
        /\ (Len(threads[t].requests) = 1 /\ Len(threads'[t].requests) = 2) =>
               /\ threads'[t].requests[2] =
                      <<SystemEntry>> \o conversation_history'
               /\ Len(conversation_history') >= 3
               /\ Last(conversation_history') =
                      Entry("function", <<>>, threads[t].results, t)
               /\ conversation_history'[Len(conversation_history') - 1] =
                      Entry("assistant", threads[t].reply, <<>>, t)
      ]_vars

\* the second send made its follow-up request after a first send that had
\* gone through its own follow-up
C12_Witness ==
    /\ threads[1].pc = "done"
    /\ threads[1].ret.kind = "full"
    /\ Len(threads[2].requests) = 2
    /\ Len(threads[2].requests[2]) = 8

\* the send of thread t has just returned because its follow-up request
\* failed
FollowupFailed(t) ==
    /\ threads[t].pc = "response2"
    /\ threads'[t].pc = "done"
    /\ Len(threads'[t].outcomes) = 2
    /\ threads'[t].outcomes[2] # "ok"

\* C13: when the follow-up request fails after the tool calls were
\* executed, send_message returns the Error string alone, without the
\* first reply or the tool results; the document keeps what the tools
\* did; the history keeps the user, assistant and function entries of
\* the exchange and gets no further entry
C13_FollowupFailure ==
    [][\A t \in Tids : FollowupFailed(t) =>
        /\ threads'[t].ret = RetOf("error")
        /\ threads'[t].ret.reply = <<>> /\ threads'[t].ret.results = <<>>
        /\ ActiveDocument' = ActiveDocument
        /\ threads'[t].invoked = threads[t].invoked
        /\ threads'[t].results = threads[t].results
        /\ conversation_history' = conversation_history
        /\ Len(conversation_history) >= 3
        /\ SubSeq(conversation_history, Len(conversation_history) - 2,
                  Len(conversation_history)) =
               <<Entry("user", threads[t].message, <<>>, t),
                 Entry("assistant", threads[t].reply, <<>>, t),
                 Entry("function", <<>>, threads[t].results, t)>>
      ]_vars

\* a send whose tools created a document and a sphere in it has returned
\* the Error string after its follow-up request failed
C13_Witness ==
    \E t \in Tids :
        /\ threads[t].pc = "done"
        /\ threads[t].outcomes = <<"ok", "raise">>
        /\ threads[t].ret.kind = "error"
        /\ Len(threads[t].invoked) = 2
        /\ ActiveDocument.exists
        /\ Len(ActiveDocument.Objects) >= 1
        /\ Last(conversation_history).role = "function"

(***************************************************************************)
(* More properties of the connector (ConnectorSpec).                       *)
(***************************************************************************)
Registered(n) == n \in DefaultNames

\* replies of the service in which no registered name is written as a call
NoCallReplies == {T_plain, T_unknown}

\* C14: _extract_tool_calls returns one call for each word(...) of the
\* text whose word is a registered name, in the order written, and none
\* for the other words; when the first reply of a send has no such match,
\* the send runs no tool, adds no function entry, makes no follow-up
\* request and returns the reply
C14_OneCallPerRegisteredMatch ==
    /\ (direct.src.kind = "names" /\ direct.stage \in {"extracted", "executed"})
           => /\ ~direct.raised
              /\ [i \in 1..Len(direct.calls) |-> direct.calls[i].name] =
                     SelectSeq(direct.src.lits, Registered)
              /\ \A i \in 1..Len(direct.calls) :
                     direct.calls[i].parameters = <<<<"2">>>>
    /\ \A t \in Tids :
           (threads[t].extracted /\ threads[t].reply \in NoCallReplies)
               => /\ threads[t].calls = <<>>
                  /\ threads[t].invoked = <<>>
                  /\ threads[t].results = <<>>
                  /\ Len(threads[t].requests) = 1
                  /\ threads[t].pc = "done"
                  /\ threads[t].ret.kind = "reply"
                  /\ threads[t].ret.reply = threads[t].reply
                  /\ \A i \in 1..Len(conversation_history) :
                         conversation_history[i].role # "function"

\* two calls were extracted around a word that is no tool, and the send
\* has returned a reply that calls a word that is no tool
C14_Witness ==
    /\ direct.src.kind = "names"
    /\ Len(direct.src.lits) = 3
    /\ Len(direct.calls) = 2
    /\ direct.stage = "executed"
    /\ threads[1].pc = "done"
    /\ threads[1].reply = T_unknown
    /\ threads[1].extracted

\* the parameters the tool function of a coerced call is to receive
ExpectedArgs(src) ==
    [i \in 1..Len(src.vals) |->
        IF src.kind = "named" /\ i = 1 THEN StrV(src.lits[1])
        ELSE FloatV(src.vals[i])]

\* C15: a step of _execute_tool_call invokes the tool function at most
\* once; for a call with at least as many parameters as the schema it
\* invokes it once, with the first parameters coerced by the schema types
\* (floats to the numbers they denote, strings as they are) and the
\* parameters beyond the schema dropped; for a call with a parameter that
\* cannot be coerced or with fewer parameters than the schema it does not
\* invoke it, leaves the document as it is and returns the error string
C15_CoercionBySchema ==
    [][(direct.stage = "extracted" /\ direct'.stage = "executed") =>
        /\ Len(direct'.invoked) <= Len(direct.invoked) + 1
        /\ Len(direct'.results) = Len(direct.results) + 1
        /\ direct.src.kind \in {"floats", "named"} =>
               /\ Len(direct'.invoked) = 1
               /\ direct'.invoked[1].args = ExpectedArgs(direct.src)
               /\ direct'.results[1].kind = "executed"
        /\ direct.src.kind \in {"badparam", "arity"} =>
               /\ direct'.invoked = <<>>
               /\ direct'.results[1].kind = "error"
               /\ ActiveDocument' = ActiveDocument
      ]_vars

\* a sphere of radius 5 was added by a direct call with the parameters
\* 5 and 7
C15_Witness ==
    /\ direct.stage = "executed"
    /\ direct.src.kind = "floats"
    /\ Len(direct.src.lits) = 2
    /\ direct.invoked = <<[function |-> "_create_sphere",
                           args |-> <<FloatV(5000)>>]>>
    /\ ActiveDocument.exists
    /\ \E i \in 1..Len(ActiveDocument.Objects) :
           /\ ActiveDocument.Objects[i].TypeId = "Part::Sphere"
           /\ ActiveDocument.Objects[i].Dims = <<5000>>

(***************************************************************************)
(* More properties of the chat system used one exchange at a time          *)
(* (SeqSpec).                                                              *)
(***************************************************************************)
ByThread(t) == LET by(e) == e.by = t IN SelectSeq(conversation_history, by)

\* the roles of the entries the send of thread t appended
Roles(t) == [i \in 1..Len(ByThread(t)) |-> ByThread(t)[i].role]

RECURSIVE InSendOrder(_)
\* the entries of send t, then those of the sends after it
InSendOrder(t) ==
    IF t \notin Tids THEN <<>> ELSE ByThread(t) \o InSendOrder(t + 1)

ShapeUser == <<"user">>
ShapePlain == <<"user", "assistant">>
ShapePartial == <<"user", "assistant", "function">>
ShapeFull == <<"user", "assistant", "function", "assistant">>

\* the send of thread t returned before any reply: no key, no package, a
\* client that could not be constructed, or a failed first request
NoReply(t) == threads[t].pc = "done" /\ ~threads[t].extracted

\* what the exchanges of the finished sends leave in the history, whatever
\* the shapes allowed: the entries of each send together and in send
\* order, [user] for a send without reply, [user, assistant] for a reply
\* without tool call, the full shape for a follow-up that succeeded; and
\* the user message of a send without reply is in every request of the
\* later send
ShapesOfSends(shapes) ==
    /\ conversation_history = InSendOrder(1)
    /\ \A t \in Tids : threads[t].pc = "done" =>
           /\ Roles(t) \in shapes
           /\ NoReply(t) => Roles(t) = ShapeUser
           /\ (threads[t].extracted /\ threads[t].calls = <<>>)
                  => Roles(t) = ShapePlain
           /\ (threads[t].calls # <<>> /\ threads[t].outcomes = <<"ok", "ok">>)
                  => Roles(t) = ShapeFull
    /\ \A t1, t2 \in Tids : (t1 < t2 /\ NoReply(t1)) =>
           \A k \in 1..Len(threads[t2].requests) :
               \E i \in 2..(Len(threads[t2].requests[k]) - 1) :
                   /\ threads[t2].requests[k][i] =
                          Entry("user", threads[t1].message, <<>>, t1)
                   /\ threads[t2].requests[k][i + 1].role = "user"

\* C16 as stated: every finished send has extended the history by [user],
\* [user, assistant] or [user, assistant, function, assistant]
C16_ThreeShapes == ShapesOfSends({ShapeUser, ShapePlain, ShapeFull})

\* C16, amended: every finished send has extended the history by [user],
\* [user, assistant], [user, assistant, function, assistant], or by
\* [user, assistant, function] when tool calls were extracted and the
\* follow-up request failed
C16_FourShapes ==
    /\ ShapesOfSends({ShapeUser, ShapePlain, ShapePartial, ShapeFull})
    /\ \A t \in Tids :
           (threads[t].pc = "done" /\ Len(threads[t].outcomes) = 2)
               => (threads[t].outcomes[2] # "ok" <=> Roles(t) = ShapePartial)

\* a send whose first request failed, then a send whose follow-up request
\* failed
C16_Witness ==
    /\ threads[1].pc = "done"
    /\ threads[1].outcomes = <<"raise">>
    /\ threads[2].pc = "done"
    /\ threads[2].outcomes = <<"ok", "raise">>
    /\ Roles(1) = ShapeUser
    /\ Roles(2) = ShapePartial

Executed(r) == r.kind = "executed"

\* the function entry thread t appended, as a set (empty before it did)
FunctionEntries(t) ==
    {i \in 1..Len(conversation_history) :
        /\ conversation_history[i].by = t
        /\ conversation_history[i].role = "function"}

\* the calls of each send are executed one by one in the order extracted,
\* each once (the tool functions invoked are those of the calls that
\* executed, in order); the function entry is appended and the follow-up
\* request made only when every call has a result, whether or not calls
\* failed; the entry, the request and the returned string carry the
\* results in call order
ExecutedInOrder ==
    \A t \in Tids :
        /\ Len(threads[t].results) <= Len(threads[t].calls)
        /\ \A i \in 1..Len(threads[t].results) :
               threads[t].results[i].tool = threads[t].calls[i].name
        /\ [i \in 1..Len(threads[t].invoked) |-> threads[t].invoked[i].function]
               = LET ex == SelectSeq(threads[t].results, Executed)
                 IN  [i \in 1..Len(ex) |-> get_tool(tools, ex[i].tool).function]
        /\ threads[t].pc = "exec" =>
               /\ Len(threads[t].results) < Len(threads[t].calls)
               /\ Len(threads[t].requests) = 1
               /\ FunctionEntries(t) = {}
        /\ (Len(threads[t].requests) = 2 \/ FunctionEntries(t) # {}) =>
               /\ Len(threads[t].results) = Len(threads[t].calls)
               /\ \A i \in FunctionEntries(t) :
                      conversation_history[i].results = threads[t].results
               /\ Len(threads[t].requests) = 2
               /\ Last(threads[t].requests[2]).results = threads[t].results
        /\ threads[t].ret.kind = "full" => threads[t].ret.results = threads[t].results

\* C17 as stated: the calls are executed in order, each once, all before
\* the follow-up, a failure stopping nothing, and the text of the function
\* entry has one line per call
C17_OneLinePerCall ==
    /\ ExecutedInOrder
    /\ \A t \in Tids : \A i \in FunctionEntries(t) :
           LinesOfJoin(tools, conversation_history[i].results) =
               Len(threads[t].calls)

\* C17, amended: the calls are executed in order, each once, all before
\* the follow-up, a failure stopping nothing, and the text of the function
\* entry has the result strings of the calls in call order, each of one
\* line or more
C17_OneResultPerCall ==
    /\ ExecutedInOrder
    /\ \A t \in Tids : \A i \in FunctionEntries(t) :
           /\ Len(conversation_history[i].results) = Len(threads[t].calls)
           /\ LinesOfJoin(tools, conversation_history[i].results) >=
                  Len(threads[t].calls)

\* a send executed three calls, the first of which failed and the last of
\* which returned a listing of three lines, and went on to its follow-up
C17_Witness ==
    \E t \in Tids :
        /\ Len(threads[t].calls) = 3
        /\ Len(threads[t].requests) = 2
        /\ threads[t].results[1].kind = "error"
        /\ threads[t].results[2].kind = "executed"
        /\ threads[t].results[3].kind = "executed"
        /\ LinesOfJoin(tools, threads[t].results) = 5
        /\ FunctionEntries(t) # {}

(***************************************************************************)
(* Properties of the tools (ToolSpec).                                     *)
(***************************************************************************)
NeedObject == {N_move_object, N_rotate_object, N_get_object_info}
Booleans == {N_boolean_union, N_boolean_cut}

\* the step is a tool call: the call made and the string returned
LastCall == direct'.calls[Len(direct'.calls)]
LastResult == direct'.results[Len(direct'.results)]
Present(name) == \E i \in 1..Len(ActiveDocument.Objects) :
                     ActiveDocument.Objects[i].Name = name

\* C18: a tool call made without an active document, by any tool but
\* create_document, returns the No active document message and leaves the
\* state of the document as it is; move_object, rotate_object and
\* get_object_info of a name that is not in the document return the not
\* found message and change nothing; boolean_union and boolean_cut add
\* nothing when an operand is not in the document, and otherwise add one
\* object, after the others, that refers to the two operands
C18_ToolsThatCannotApply ==
    [][Len(direct'.calls) = Len(direct.calls) + 1 =>
        /\ (~ActiveDocument.exists /\ LastCall.name # N_create_document) =>
               /\ LastResult.text = NoActiveDocument
               /\ ActiveDocument' = ActiveDocument
        /\ (/\ ActiveDocument.exists
            /\ LastCall.name \in NeedObject
            /\ ~Present(LastCall.parameters[1])) =>
               /\ LastResult.text =
                      <<"Object not found", LastCall.parameters[1]>>
               /\ ActiveDocument' = ActiveDocument
        /\ (ActiveDocument.exists /\ LastCall.name \in Booleans) =>
               IF Present(LastCall.parameters[1])
                      /\ Present(LastCall.parameters[2])
               THEN /\ Len(ActiveDocument'.Objects) =
                           Len(ActiveDocument.Objects) + 1
                    /\ SubSeq(ActiveDocument'.Objects, 1,
                              Len(ActiveDocument.Objects)) =
                           ActiveDocument.Objects
                    /\ Last(ActiveDocument'.Objects).Links =
                           <<LastCall.parameters[1], LastCall.parameters[2]>>
                    /\ ActiveDocument'.Name = ActiveDocument.Name
               ELSE ActiveDocument' = ActiveDocument
      ]_vars

\* a cut was refused for its missing tool object, then a union of the box
\* and the sphere was added
C18_Witness ==
    /\ Len(direct.calls) = 2
    /\ direct.calls[1] = Call(N_boolean_cut, <<N_Box, N_Nope, N_Out>>)
    /\ direct.results[1].text = <<"Object not found", N_Nope>>
    /\ direct.calls[2] = Call(N_boolean_union, <<N_Box, N_Sphere, N_Out>>)
    /\ Len(ActiveDocument.Objects) = 3
    /\ ActiveDocument.Objects[3].TypeId = "Part::Fuse"
    /\ ActiveDocument.Objects[3].Links = <<N_Box, N_Sphere>>

(***************************************************************************)
(* More properties of the chat system (Spec).                              *)
(***************************************************************************)
\* the step started the background call of thread t
Started(t) == threads[t].pc = "idle" /\ threads'[t].pc # "idle"

\* C19: a Send click that leaves blank text in the input changes nothing
\* else: no widget, no thread, no history entry, no queued call; and the
\* panel of a constructed window gets widgets, and a background call is
\* started, only by a click on a text that is not blank: the input is
\* cleared, the user message (stripped) and the thinking indicator are
\* added in that order, and the call it starts has done nothing yet
C19_BlankSendIsNoOp ==
    [][/\ (message_input' # message_input /\ message_input' # <<>>) =>
              /\ Strip(message_input', Whitespace) = <<>>
              /\ UNCHANGED <<chat_layout, threads, nSends,
                             conversation_history, eventQueue, bgAccess>>
       /\ (/\ chat_window_instance' = chat_window_instance
           /\ \/ chat_layout' # chat_layout
              \/ nSends' # nSends
              \/ \E t \in Tids : Started(t)) =>
              /\ message_input' = <<>>
              /\ nSends' = nSends + 1
              /\ \A t \in Tids : Started(t) <=> t = nSends'
              /\ threads'[nSends'] =
                     [IdleThread EXCEPT !.pc = "add_user",
                                        !.message = threads'[nSends'].message]
              /\ threads'[nSends'].message # <<>>
              /\ Strip(threads'[nSends'].message, Whitespace) =
                     threads'[nSends'].message
              /\ chat_layout' = chat_layout \o
                     <<Widget("message", "user", threads'[nSends'].message,
                              0, NoRet),
                       Widget("thinking", "assistant", <<>>, nSends', NoRet)>>
              /\ UNCHANGED <<conversation_history, eventQueue, bgAccess>>
      ]_vars

\* a message was sent, and a click on blank text after it has left the
\* panel, the thread and the history as they were
C19_Witness ==
    /\ nSends = 1
    /\ message_input = <<" ">>
    /\ Len(chat_layout) = 3
    /\ chat_layout[2].text = T_hi
    /\ chat_layout[3].kind = "thinking"
    /\ threads[1].pc = "add_user"
    /\ conversation_history = <<>>

=============================================================================
